---- MODULE Spec2Model ----
(***************************************************************************)
(* A model of bende's Value (src/src/value.rs): the four-variant bencode  *)
(* value, its narrowing accessors, its From conversions, its Serialize    *)
(* impl (the events it emits to a serializer) and its Deserialize visitor *)
(* (the Value it builds from the events a deserializer hands it).         *)
(*                                                                         *)
(* Representation.                                                         *)
(*   byte      a number in 0..255                                          *)
(*   i64/u64   the 64-bit pattern as four 16-bit limbs, least significant  *)
(*             first; a cast `as i64` keeps or extends the pattern         *)
(*   Value     <<"Int", w>>, <<"Text", bytes>>, <<"List", <<v1, ...>>>>,   *)
(*             <<"Dict", << <<k1, v1>>, ... >>>> with the entries in the   *)
(*             order a BTreeMap<String, Value> iterates them               *)
(***************************************************************************)
EXTENDS Integers, Sequences, FiniteSets, TLC

VARIABLES val, op, arg, ret

vars == <<val, op, arg, ret>>

\* ------------------------------------------------------------------ bounds

\* Longest list, dict or hash map the inputs and the mutations build.
MaxLen == 2

\* ----------------------------------------------------- 64-bit arithmetic

Base == 2 ^ 16

Top == Base - 1

Half == Base \div 2

\* The 64-bit pattern of a small natural number.
Word(n) == << n % Base, (n \div Base) % Base, 0, 0 >>

Zero64 == Word(0)

AllOnes64 == << Top, Top, Top, Top >>

\* i64::MAX and i64::MIN (the payload type of Value::Int).
I64_MAX == << Top, Top, Top, Half - 1 >>

I64_MIN == << 0, 0, 0, Half >>

\* The sign bit of a 64-bit pattern.
TopBit(w) == w[4] >= Half

\* w + c for a small c, wrapping at 2^64: <<sum, carry out>>.
AddSmall(w, c) ==
    LET s1 == w[1] + c
        s2 == w[2] + (s1 \div Base)
        s3 == w[3] + (s2 \div Base)
        s4 == w[4] + (s3 \div Base)
    IN  << << s1 % Base, s2 % Base, s3 % Base, s4 % Base >>, s4 \div Base >>

\* w * m + c for small m and c: <<product mod 2^64, carry out>>.
MulSmallAdd(w, m, c) ==
    LET s1 == w[1] * m + c
        s2 == w[2] * m + (s1 \div Base)
        s3 == w[3] * m + (s2 \div Base)
        s4 == w[4] * m + (s3 \div Base)
    IN  << << s1 % Base, s2 % Base, s3 % Base, s4 % Base >>, s4 \div Base >>

\* w divided by a small d: <<quotient, remainder>>.
DivSmall(w, d) ==
    LET r4 == w[4] % d
        n3 == r4 * Base + w[3]
        r3 == n3 % d
        n2 == r3 * Base + w[2]
        r2 == n2 % d
        n1 == r2 * Base + w[1]
    IN  << << n1 \div d, n2 \div d, n3 \div d, w[4] \div d >>, n1 % d >>

\* The one's complement and the two's complement negation of a pattern.
Not64(w) == << Top - w[1], Top - w[2], Top - w[3], Top - w[4] >>

Neg64(w) == AddSmall(Not64(w), 1)[1]

\* Unsigned comparison of two patterns.
ULess(a, b) ==
    \/ a[4] < b[4]
    \/ a[4] = b[4] /\ a[3] < b[3]
    \/ a[4] = b[4] /\ a[3] = b[3] /\ a[2] < b[2]
    \/ a[4] = b[4] /\ a[3] = b[3] /\ a[2] = b[2] /\ a[1] < b[1]

\* The number an i64 pattern stands for, as <<sign, magnitude>>.
MathOfI64(w) == IF TopBit(w) THEN << "-", Neg64(w) >> ELSE << "+", w >>

\* The i64 pattern of a small integer (the sample payloads are written so).
I64(n) == IF n >= 0 THEN Word(n) ELSE Neg64(Word(-n))

\* ------------------------------------------------- native integer types

NumTypes == { "u8", "u16", "u32", "u64", "usize", "i8", "i16", "i32", "isize" }

Signed(ty) == ty \in { "i8", "i16", "i32", "i64", "isize" }

\* Bits of each type (usize and isize as on a 64-bit target).
Width(ty) ==
    CASE ty \in { "u8", "i8" } -> 8
      [] ty \in { "u16", "i16" } -> 16
      [] ty \in { "u32", "i32" } -> 32
      [] OTHER -> 64

\* The part of limb p (1 = least significant) that lies within w bits.
LimbMask(p, w) ==
    IF 16 * p <= w THEN Top
    ELSE IF 16 * (p - 1) >= w THEN 0
    ELSE 2 ^ (w - 16 * (p - 1)) - 1

MaskW(w) == << LimbMask(1, w), LimbMask(2, w), LimbMask(3, w), LimbMask(4, w) >>

\* The part of limb p that is bit w-1, the sign bit of a w-bit type.
LimbHigh(p, w) ==
    IF 16 * (p - 1) < w /\ w <= 16 * p THEN 2 ^ (w - 1 - 16 * (p - 1)) ELSE 0

\* 2^(w-1) as a pattern.
HighBitW(w) == << LimbHigh(1, w), LimbHigh(2, w), LimbHigh(3, w), LimbHigh(4, w) >>

\* Whether bit w-1 of a w-bit value is set.
SignBitW(x, w) ==
    LET h == HighBitW(w)
    IN  \E p \in 1..4 : h[p] > 0 /\ x[p] >= h[p]

\* 2^w - x for a w-bit x > 0: the magnitude of a negative w-bit value.
NegW(x, w) ==
    LET m == MaskW(w)
        c == << m[1] - x[1], m[2] - x[2], m[3] - x[3], m[4] - x[4] >>
        s == AddSmall(c, 1)[1]
    IN  << s[1] % (m[1] + 1), s[2] % (m[2] + 1), s[3] % (m[3] + 1), s[4] % (m[4] + 1) >>

\* The number a native value x of type ty stands for, as <<sign, magnitude>>.
MathOfNative(ty, x) ==
    IF Signed(ty) /\ SignBitW(x, Width(ty))
    THEN << "-", NegW(x, Width(ty)) >>
    ELSE << "+", x >>

\* Rust's `x as i64`: an unsigned source is zero-extended (and a u64 is
\* reinterpreted), a signed source is sign-extended.
CastAsI64(ty, x) ==
    IF Signed(ty) /\ SignBitW(x, Width(ty))
    THEN LET m == MaskW(Width(ty))
         IN  << x[1] + (Top - m[1]), x[2] + (Top - m[2]),
                x[3] + (Top - m[3]), x[4] + (Top - m[4]) >>
    ELSE x

\* Boundary values of each native type: 0, 1, 2^(w-1)-1, 2^(w-1), 2^w-1.
NativeSamples(ty) ==
    LET w == Width(ty)
        h == HighBitW(w)
    IN  { Zero64, Word(1), h, MaskW(w),
          << MaskW(w)[1] - h[1], MaskW(w)[2] - h[2], MaskW(w)[3] - h[3], MaskW(w)[4] - h[4] >> }

\* ------------------------------------------------------- bytes, strings

\* Whether bytes b[i..] are well-formed UTF-8 (str::from_utf8's table).
RECURSIVE Utf8From(_, _)
Utf8From(b, i) ==
    LET n == Len(b)
        Cont(j) == j <= n /\ b[j] >= 128 /\ b[j] <= 191
        In(j, lo, hi) == j <= n /\ b[j] >= lo /\ b[j] <= hi
        c == b[i]
    IN  IF i > n THEN TRUE
        ELSE IF c < 128 THEN Utf8From(b, i + 1)
        ELSE IF c >= 194 /\ c <= 223 THEN Cont(i + 1) /\ Utf8From(b, i + 2)
        ELSE IF c = 224 THEN In(i + 1, 160, 191) /\ Cont(i + 2) /\ Utf8From(b, i + 3)
        ELSE IF c = 237 THEN In(i + 1, 128, 159) /\ Cont(i + 2) /\ Utf8From(b, i + 3)
        ELSE IF c >= 225 /\ c <= 239 THEN Cont(i + 1) /\ Cont(i + 2) /\ Utf8From(b, i + 3)
        ELSE IF c = 240
             THEN In(i + 1, 144, 191) /\ Cont(i + 2) /\ Cont(i + 3) /\ Utf8From(b, i + 4)
        ELSE IF c >= 241 /\ c <= 243
             THEN Cont(i + 1) /\ Cont(i + 2) /\ Cont(i + 3) /\ Utf8From(b, i + 4)
        ELSE IF c = 244
             THEN In(i + 1, 128, 143) /\ Cont(i + 2) /\ Cont(i + 3) /\ Utf8From(b, i + 4)
        ELSE FALSE

from_utf8(b) == IF Utf8From(b, 1) THEN << "Ok", b >> ELSE << "Err", "Utf8Error" >>

\* String's Ord: lexicographic on the bytes, a proper prefix first.
StrLess(a, b) ==
    \E i \in 1..(Len(b)) :
        /\ i <= Len(a) + 1
        /\ \A j \in 1..(i - 1) : a[j] = b[j]
        /\ (i = Len(a) + 1 \/ a[i] < b[i])

\* ------------------------------------------------------------------ Value

Value_Int(v) == << "Int", v >>

Value_Text(v) == << "Text", v >>

Value_List(v) == << "List", v >>

Value_Dict(v) == << "Dict", v >>

\* The caller holds no value.
NoValue == << "NoValue", << >> >>

Tag(v) == v[1]

Payload(v) == v[2]

Some(x) == << "Some", x >>

None == << "None" >>

\* ---------------------------------------------------- Dict, a BTreeMap

\* BTreeMap::insert: the entry of an equal key gets the new value, a new key
\* goes where the search for it ends, before the first greater key.
\* Two slips: the entry put at the end whatever its key, and the entry of an
\* equal key kept beside the new one.
BTreeInsertAppend(d, k, v) == Append(d, << k, v >>)

BTreeInsertDup(d, k, v) ==
    LET n == Cardinality({ i \in 1..Len(d) : StrLess(d[i][1], k) })
    IN  SubSeq(d, 1, n) \o << << k, v >> >> \o SubSeq(d, n + 1, Len(d))

BTreeInsert(d, k, v) ==
    IF \E i \in 1..Len(d) : d[i][1] = k
    THEN [ i \in 1..Len(d) |-> IF d[i][1] = k THEN << k, v >> ELSE d[i] ]
    ELSE LET n == Cardinality({ i \in 1..Len(d) : StrLess(d[i][1], k) })
         IN  SubSeq(d, 1, n) \o << << k, v >> >> \o SubSeq(d, n + 1, Len(d))

\* BTreeMap::remove.
BTreeRemove(d, k) == SelectSeq(d, LAMBDA e : e[1] # k)

\* BTreeMap::get.
BTreeGet(d, k) ==
    IF \E i \in 1..Len(d) : d[i][1] = k
    THEN Some((CHOOSE e \in { d[i] : i \in 1..Len(d) } : e[1] = k)[2])
    ELSE None

\* BTreeMap::from_iter over the entries in the order the iterator yields
\* them (a later entry of an equal key wins).
RECURSIVE BTreeFromIter(_)
BTreeFromIter(it) ==
    IF it = << >> THEN << >>
    ELSE LET e == it[Len(it)]
         IN  BTreeInsert(BTreeFromIter(SubSeq(it, 1, Len(it) - 1)), e[1], e[2])

\* -------------------------------------------------------------- accessors

as_i64(self) == IF Tag(self) = "Int" THEN Some(Payload(self)) ELSE None

as_bytes(self) == IF Tag(self) = "Text" THEN Some(Payload(self)) ELSE None

as_bytes_mut(self) == IF Tag(self) = "Text" THEN Some(Payload(self)) ELSE None

\* A slip: text that is not UTF-8 reported as absent.
as_str_absent(self) ==
    IF Tag(self) = "Text" /\ from_utf8(Payload(self))[1] = "Ok"
    THEN << "Ok", Some(Payload(self)) >>
    ELSE << "Ok", None >>

as_str(self) ==
    IF Tag(self) = "Text"
    THEN LET r == from_utf8(Payload(self))
         IN  IF r[1] = "Ok" THEN << "Ok", Some(r[2]) >> ELSE r
    ELSE << "Ok", None >>

as_str_mut(self) ==
    IF Tag(self) = "Text"
    THEN LET r == from_utf8(Payload(self))
         IN  IF r[1] = "Ok" THEN << "Ok", Some(r[2]) >> ELSE r
    ELSE << "Ok", None >>

as_list(self) == IF Tag(self) = "List" THEN Some(Payload(self)) ELSE None

as_list_mut(self) == IF Tag(self) = "List" THEN Some(Payload(self)) ELSE None

as_dict(self) == IF Tag(self) = "Dict" THEN Some(Payload(self)) ELSE None

as_dict_mut(self) == IF Tag(self) = "Dict" THEN Some(Payload(self)) ELSE None

\* ------------------------------------------------------------ conversions

\* impl_value_from_num!: Value::Int(v as i64).
from_num(ty, v) == Value_Int(CastAsI64(ty, v))

from_i64(v) == Value_Int(v)

\* From<&[u8]>, From<Vec<u8>>.
from_bytes(v) == Value_Text(v)

\* From<&str>, From<String>: the string's bytes.
from_str(v) == Value_Text(v)

\* From<&[Value]>, From<Vec<Value>>.
from_list(v) == Value_List(v)

\* From<HashMap<String, Value>>: v is the map's entries in the order its
\* iterator yields them, which is arbitrary.
from_hash_map(v) == Value_Dict(BTreeFromIter(v))

\* From<BTreeMap<String, Value>>.
from_btree_map(v) == Value_Dict(v)

\* -------------------------------------------------------------- Serialize

\* The events Value::serialize hands the serializer, as a tree:
\*   <<"i64", w>>  <<"bytes", b>>  <<"seq", <<e1, ...>>>>
\*   <<"map", << <<key event, value event>>, ... >>>>, a key being <<"str", k>>.
RECURSIVE serialize(_)
\* A slip: the elements of a list emitted last to first.
serialize_rev(self) ==
    CASE Tag(self) = "Int" -> << "i64", Payload(self) >>
      [] Tag(self) = "Text" -> << "bytes", Payload(self) >>
      [] Tag(self) = "List" ->
            << "seq", [ i \in 1..Len(Payload(self)) |->
                          serialize(Payload(self)[Len(Payload(self)) + 1 - i]) ] >>
      [] Tag(self) = "Dict" ->
            << "map", [ i \in 1..Len(Payload(self)) |->
                          << << "str", Payload(self)[i][1] >>,
                             serialize(Payload(self)[i][2]) >> ] >>

serialize(self) ==
    CASE Tag(self) = "Int" -> << "i64", Payload(self) >>
      [] Tag(self) = "Text" -> << "bytes", Payload(self) >>
      [] Tag(self) = "List" ->
            << "seq", [ i \in 1..Len(Payload(self)) |-> serialize(Payload(self)[i]) ] >>
      [] Tag(self) = "Dict" ->
            << "map", [ i \in 1..Len(Payload(self)) |->
                          << << "str", Payload(self)[i][1] >>,
                             serialize(Payload(self)[i][2]) >> ] >>

\* ------------------------------------------------------------ Deserialize

\* What a deserializer hands Value's visitor, as a tree: the events above
\* and <<"u64", w>>, <<"str", s>>, <<"some", e>>, <<"bool", b>>, and
\* <<"err", e>> where the deserializer itself fails. A result is
\* <<"Ok", value, n>> or <<"Err", error, n>>, n counting the next_element
\* and next_entry calls made.
Ok(v, n) == << "Ok", v, n >>

Err(e, n) == << "Err", e, n >>

visit_i64(v) == Ok(Value_Int(v), 0)

\* `v as i64` of a u64 keeps the 64 bits.
visit_u64(v) == Ok(Value_Int(CastAsI64("u64", v)), 0)

\* visit_str, visit_borrowed_str, visit_string.
visit_str(v) == Ok(Value_Text(v), 0)

\* A slip: bytes that are not UTF-8 refused.
visit_bytes_utf8(v) ==
    IF from_utf8(v)[1] = "Ok" THEN Ok(Value_Text(v), 0) ELSE Err("InvalidUtf8", 0)

\* visit_bytes, visit_borrowed_bytes, visit_byte_buf.
visit_bytes(v) == Ok(Value_Text(v), 0)

\* MapAccess::next_key::<String>: String's own visitor takes a string, or
\* bytes that are UTF-8.
next_key(ev) ==
    CASE ev[1] = "str" -> << "Ok", ev[2] >>
      [] ev[1] = "bytes" ->
            IF from_utf8(ev[2])[1] = "Ok" THEN << "Ok", ev[2] >>
            ELSE << "Err", "InvalidUtf8" >>
      [] ev[1] = "err" -> << "Err", ev[2] >>
      [] OTHER -> << "Err", "invalid type" >>

RECURSIVE deserialize(_), seq_loop(_, _, _, _), map_loop(_, _, _, _)
\* A slip: a failed element skipped and the rest of the list returned.
seq_loop_skip(items, i, list, n) ==
    IF i > Len(items) THEN Ok(Value_List(list), n + 1)
    ELSE LET r == deserialize(items[i])
         IN  IF r[1] = "Err" THEN seq_loop(items, i + 1, list, n + 1 + r[3])
             ELSE seq_loop(items, i + 1, Append(list, r[2]), n + 1 + r[3])

\* visit_seq's loop from element i on, list holding the elements pushed and
\* n the calls made so far.
seq_loop(items, i, list, n) ==
    IF i > Len(items) THEN Ok(Value_List(list), n + 1)
    ELSE LET r == deserialize(items[i])
         IN  IF r[1] = "Err" THEN Err(r[2], n + 1 + r[3])
             ELSE seq_loop(items, i + 1, Append(list, r[2]), n + 1 + r[3])

\* A slip: each element put in front of the ones before it.
visit_seq_front(access) ==
    LET r == seq_loop(access, 1, << >>, 0)
    IN  IF r[1] = "Err" THEN r
        ELSE Ok(Value_List([ i \in 1..Len(Payload(r[2])) |->
                               Payload(r[2])[Len(Payload(r[2])) + 1 - i] ]), r[3])

visit_seq(access) == seq_loop(access, 1, << >>, 0)

\* visit_map's loop from entry i on.
map_loop(entries, i, dict, n) ==
    IF i > Len(entries) THEN Ok(Value_Dict(dict), n + 1)
    ELSE LET k == next_key(entries[i][1])
         IN  IF k[1] = "Err" THEN Err(k[2], n + 1)
             ELSE LET r == deserialize(entries[i][2])
                  IN  IF r[1] = "Err" THEN Err(r[2], n + 1 + r[3])
                      ELSE map_loop(entries, i + 1, BTreeInsert(dict, k[2], r[2]),
                                    n + 1 + r[3])

visit_map(access) == map_loop(access, 1, << >>, 0)

\* Value::deserialize: deserialize_any(ValueVisitor).
deserialize(ev) ==
    CASE ev[1] = "i64" -> visit_i64(ev[2])
      [] ev[1] = "u64" -> visit_u64(ev[2])
      [] ev[1] = "str" -> visit_str(ev[2])
      [] ev[1] = "bytes" -> visit_bytes(ev[2])
      [] ev[1] = "some" -> deserialize(ev[2])
      [] ev[1] = "seq" -> visit_seq(ev[2])
      [] ev[1] = "map" -> visit_map(ev[2])
      [] ev[1] = "err" -> Err(ev[2], 0)
      [] OTHER -> Err("invalid type", 0)

\* ------------------------------------------------- the encoder (spec 4.2)

IsDigit(c) == c >= 48 /\ c <= 57

\* The four decimal digits of r < 10000.
FourDigits(r) ==
    << 48 + (r \div 1000), 48 + ((r \div 100) % 10), 48 + ((r \div 10) % 10), 48 + (r % 10) >>

\* The decimal digits of 0 < r < 10000, no leading zero.
LeadDigits(r) ==
    SubSeq(FourDigits(r),
           IF r >= 1000 THEN 1 ELSE IF r >= 100 THEN 2 ELSE IF r >= 10 THEN 3 ELSE 4, 4)

\* The decimal digits of an unsigned pattern, most significant first, found
\* four at a time by dividing by 10000.
RECURSIVE DecimalDigits(_)
DecimalDigits(w) ==
    IF w = Zero64 THEN << >>
    ELSE LET qr == DivSmall(w, 10000)
         IN  IF qr[1] = Zero64 THEN LeadDigits(qr[2])
             ELSE DecimalDigits(qr[1]) \o FourDigits(qr[2])

DecimalU64(w) == IF w = Zero64 THEN << 48 >> ELSE DecimalDigits(w)

\* The decimal form of an i64: "-" and the magnitude when negative.
DecimalI64(w) ==
    IF TopBit(w) THEN << 45 >> \o DecimalU64(Neg64(w)) ELSE DecimalU64(w)

\* A byte string: its length in decimal, ':', the bytes.
EncodeText(b) == DecimalU64(Word(Len(b))) \o << 58 >> \o b

\* Whether entry e of a map comes before every other entry by its key bytes.
\* The entries of a map of a hash map arrive in any order.
RECURSIVE SortEntries(_)
SortEntries(entries) ==
    IF entries = << >> THEN << >>
    ELSE LET i == CHOOSE i \in 1..Len(entries) :
                      \A j \in 1..Len(entries) :
                          ~StrLess(entries[j][1][2], entries[i][1][2])
         IN  << entries[i] >>
                 \o SortEntries(SubSeq(entries, 1, i - 1)
                                    \o SubSeq(entries, i + 1, Len(entries)))

RECURSIVE Concat(_)
Concat(ss) == IF ss = << >> THEN << >> ELSE ss[1] \o Concat(Tail(ss))

\* The serializer: the bytes written for the events of one value.
RECURSIVE EncodeEvents(_)
EncodeEvents(ev) ==
    CASE ev[1] = "i64" -> << 105 >> \o DecimalI64(ev[2]) \o << 101 >>
      [] ev[1] \in { "bytes", "str" } -> EncodeText(ev[2])
      [] ev[1] = "seq" ->
            << 108 >> \o Concat([ i \in 1..Len(ev[2]) |-> EncodeEvents(ev[2][i]) ])
                     \o << 101 >>
      [] ev[1] = "map" ->
            LET es == SortEntries(ev[2])
            IN  << 100 >>
                    \o Concat([ i \in 1..Len(es) |->
                                  EncodeText(es[i][1][2]) \o EncodeEvents(es[i][2]) ])
                    \o << 101 >>

\* encode(&value).
encode(v) == EncodeEvents(serialize(v))

\* The events of a HashMap<String, Value> handed to the serializer as it is:
\* one map, the entries in the order the hash map iterates them.
HashMapEvents(hm) ==
    << "map", [ i \in 1..Len(hm) |-> << << "str", hm[i][1] >>, serialize(hm[i][2]) >> ] >>

\* encode(&hash_map).
encode_hash_map(hm) == EncodeEvents(HashMapEvents(hm))

\* ------------------------------------------------- the decoder (spec 4.3)

\* The first index from s on that holds no digit (Len + 1 when none).
DigitRunEnd(b, s) ==
    IF \E j \in s..Len(b) : ~IsDigit(b[j])
    THEN CHOOSE j \in s..Len(b) :
             ~IsDigit(b[j]) /\ \A k \in s..(j - 1) : IsDigit(b[k])
    ELSE Len(b) + 1

\* The value of at most four digits.
SmallValue(ds) ==
    LET n == Len(ds)
        D(j) == IF j <= n THEN ds[n + 1 - j] - 48 ELSE 0
    IN  D(1) + 10 * D(2) + 100 * D(3) + 1000 * D(4)

\* The value of a digit string as a pattern, taken four digits at a time:
\* <<value mod 2^64, whether it passed 2^64>>.
RECURSIVE Horner(_)
Horner(ds) ==
    IF Len(ds) <= 4 THEN << Word(SmallValue(ds)), FALSE >>
    ELSE LET h == Horner(SubSeq(ds, 1, Len(ds) - 4))
             m == MulSmallAdd(h[1], 10000, SmallValue(SubSeq(ds, Len(ds) - 3, Len(ds))))
         IN  << m[1], h[2] \/ m[2] # 0 >>

PErr(e, b) == << << "err", e >>, Len(b) + 1 >>

\* An integer, i the index after its 'i'.
ParseInt(b, i) ==
    LET neg == i <= Len(b) /\ b[i] = 45
        s == IF neg THEN i + 1 ELSE i
        e == DigitRunEnd(b, s)
        h == Horner(SubSeq(b, s, e - 1))
    IN  IF e > Len(b) THEN PErr("UnexpectedEnd", b)
        ELSE IF b[e] # 101 \/ e = s THEN PErr("InvalidInteger", b)
        ELSE IF b[s] = 48 /\ (e - s > 1 \/ neg) THEN PErr("InvalidInteger", b)
        ELSE IF h[2] THEN PErr("InvalidInteger", b)
        ELSE IF neg /\ ULess(I64_MIN, h[1]) THEN PErr("InvalidInteger", b)
        ELSE IF ~neg /\ TopBit(h[1]) THEN PErr("InvalidInteger", b)
        ELSE << << "i64", IF neg THEN Neg64(h[1]) ELSE h[1] >>, e + 1 >>

\* The length a run of digits states, cut off once it exceeds the input.
RECURSIVE LengthOf(_, _)
LengthOf(ds, cap) ==
    IF ds = << >> THEN 0
    ELSE LET h == LengthOf(SubSeq(ds, 1, Len(ds) - 1), cap)
         IN  IF h > cap THEN h ELSE h * 10 + (ds[Len(ds)] - 48)

\* A byte string, i the index of the first digit of its length.
ParseText(b, i) ==
    LET e == DigitRunEnd(b, i)
        l == LengthOf(SubSeq(b, i, e - 1), Len(b))
    IN  IF e > Len(b) THEN PErr("UnexpectedEnd", b)
        ELSE IF b[e] # 58 THEN PErr("InvalidLength", b)
        ELSE IF b[i] = 48 /\ e - i > 1 THEN PErr("InvalidLength", b)
        ELSE IF e + l > Len(b) THEN PErr("UnexpectedEnd", b)
        ELSE << << "bytes", SubSeq(b, e + 1, e + l) >>, e + l + 1 >>

RECURSIVE ParseValue(_, _), ParseList(_, _, _), ParseDict(_, _, _, _)
\* One value at index i: <<its events, the index after it>>.
ParseValue(b, i) ==
    IF i > Len(b) THEN PErr("UnexpectedEnd", b)
    ELSE IF b[i] = 105 THEN ParseInt(b, i + 1)
    ELSE IF IsDigit(b[i]) THEN ParseText(b, i)
    ELSE IF b[i] = 108 THEN ParseList(b, i + 1, << >>)
    ELSE IF b[i] = 100 THEN ParseDict(b, i + 1, << >>, { })
    ELSE PErr("InvalidToken", b)

\* The elements of a list up to its 'e'; a failed element ends the list.
ParseList(b, i, items) ==
    IF i > Len(b) THEN << << "seq", Append(items, << "err", "UnexpectedEnd" >>) >>, i >>
    ELSE IF b[i] = 101 THEN << << "seq", items >>, i + 1 >>
    ELSE LET r == ParseValue(b, i)
         IN  IF r[1][1] = "err" THEN << << "seq", Append(items, r[1]) >>, r[2] >>
             ELSE ParseList(b, r[2], Append(items, r[1]))

\* The entries of a dict up to its 'e': a key is a byte string that is
\* UTF-8 and was not seen before.
ParseDict(b, i, entries, seen) ==
    LET Fail(e) == << << "map", Append(entries, << << "err", e >>, << "err", e >> >>) >>,
                      Len(b) + 1 >>
    IN  IF i > Len(b) THEN Fail("UnexpectedEnd")
        ELSE IF b[i] = 101 THEN << << "map", entries >>, i + 1 >>
        ELSE IF ~IsDigit(b[i]) THEN Fail("InvalidToken")
        ELSE LET k == ParseText(b, i)
             IN  IF k[1][1] = "err" THEN Fail(k[1][2])
                 ELSE IF from_utf8(k[1][2])[1] = "Err" THEN Fail("InvalidUtf8")
                 ELSE IF k[1][2] \in seen THEN Fail("DuplicateKey")
                 ELSE LET r == ParseValue(b, k[2])
                          entry == << << "str", k[1][2] >>, r[1] >>
                      IN  IF r[1][1] = "err"
                          THEN << << "map", Append(entries, entry) >>, r[2] >>
                          ELSE ParseDict(b, r[2], Append(entries, entry),
                                         seen \cup { k[1][2] })

\* decode::<Value>(bytes): the whole input is one value.
decode(b) ==
    LET p == ParseValue(b, 1)
        r == deserialize(p[1])
    IN  IF r[1] = "Err" THEN << "Err", r[2] >>
        ELSE IF p[2] <= Len(b) THEN << "Err", "TrailingData" >>
        ELSE << "Ok", r[2] >>

\* ----------------------------------------------------------------- inputs

\* Payloads the callers pass: 0, -5, 1995 and the ends of the i64 range.
IntSamples == { I64(0), I64(0 - 5), I64(1995), I64_MAX, I64_MIN }

\* "foo", "faz", the empty string, 'é' (C3 A9), and two byte strings that
\* are not UTF-8 (a lone FF, a lone lead byte C3).
TextSamples ==
    { << >>, << 102, 111, 111 >>, << 102, 97, 122 >>, << 195, 169 >>, << 255 >>, << 195 >> }

StrSamples == { b \in TextSamples : from_utf8(b)[1] = "Ok" }

\* Dict keys: "bar", "fo", "foo", 'é'.
Keys == { << 98, 97, 114 >>, << 102, 111 >>, << 102, 111, 111 >>, << 195, 169 >> }

\* The keys a caller inserts into a dict inside a dict: "foo", "bar".
InnerKeys == { << 102, 111, 111 >>, << 98, 97, 114 >> }

\* The values the callers push, insert and store.
SmallVals ==
    { Value_Int(I64(1995)), Value_Text(<< 102, 97, 122 >>), Value_Dict(<< >>) }

\* Sequences of at most MaxLen members of S.
SeqsUpTo(S) == UNION { [ 1..n -> S ] : n \in 0..MaxLen }

\* The value a sample hash map stores under key k.
KeyVal(k) ==
    CASE k = << 102, 111, 111 >> -> Value_Int(I64(1995))
      [] k = << 98, 97, 114 >> -> Value_Text(<< 102, 97, 122 >>)
      [] k = << 102, 111 >> -> Value_Dict(<< >>)
      [] OTHER -> Value_Int(I64(1995))

\* Hash maps of at most MaxLen entries, as the sequence of entries their
\* iterator yields: distinct keys, in every order.
HashMaps ==
    { [ i \in 1..Len(ks) |-> << ks[i], KeyVal(ks[i]) >> ] :
        ks \in { s \in SeqsUpTo(Keys) : \A i, j \in 1..Len(s) : i # j => s[i] # s[j] } }

\* Event trees a deserializer other than the bencode one may hand the
\* visitor: unsigned integers, strings, options, a failing element or entry
\* at each position, entries out of order, a key twice.
EventSamples ==
    LET i1 == << "i64", I64(1) >>
        ka == << "str", << 98, 97, 114 >> >>
        kb == << "str", << 102, 111 >> >>
        er == << "err", "E1" >>
        e2 == << "err", "E2" >>
    IN  { << "u64", I64_MAX >>, << "u64", I64_MIN >>, << "u64", AllOnes64 >>,
          << "u64", Word(7) >>, << "str", << 102, 111, 111 >> >>,
          << "some", i1 >>, << "bool", TRUE >>, er,
          << "seq", << er, i1 >> >>,
          << "seq", << i1, er, i1 >> >>,
          << "seq", << i1, i1, er >> >>,
          << "seq", << i1, er, e2 >> >>,
          << "seq", << << "seq", << i1, er >> >>, e2 >> >>,
          << "seq", << << "seq", << i1 >> >>, << "map", << << ka, er >> >> >>, i1 >> >>,
          << "map", << << kb, i1 >>, << ka, i1 >> >> >>,
          << "map", << << ka, i1 >>, << ka, << "i64", I64(2) >> >> >> >>,
          << "map", << << ka, i1 >>, << kb, i1 >>, << ka, i1 >> >> >>,
          << "map", << << ka, << "map", << << kb, i1 >>, << kb, << "seq", << >> >> >> >> >> >> >> >>,
          << "map", << << er, i1 >>, << ka, i1 >> >> >>,
          << "map", << << ka, i1 >>, << kb, er >>, << e2, i1 >> >> >>,
          << "map", << << << "bytes", << 255 >> >>, i1 >> >> >>,
          << "map", << << << "bytes", << 195, 169 >> >>, i1 >> >> >> }

\* Inputs of decode: the spec's examples and malformed ones.
DecodeSamples ==
    { << 105, 49, 57, 57, 53, 101 >>,                     \* i1995e
      << 51, 58, 102, 111, 111 >>,                        \* 3:foo
      << 108, 105, 49, 57, 57, 53, 101, 51, 58, 102, 111, 111, 101 >>,
      << 100, 51, 58, 98, 97, 114, 51, 58, 102, 97, 122,
         51, 58, 102, 111, 111, 105, 49, 57, 57, 53, 101, 101 >>,
      << 100, 51, 58, 102, 111, 111, 105, 49, 101,
         51, 58, 98, 97, 114, 105, 50, 101, 101 >>,       \* d3:fooi1e3:bari2ee
      << 100, 49, 58, 97, 105, 49, 101, 49, 58, 97, 105, 50, 101, 101 >>,
      << 105, 48, 48, 55, 101 >>,                         \* i007e
      << 105, 45, 48, 101 >>,                             \* i-0e
      << 105, 45, 101 >>,                                 \* i-e
      << 52, 58, 102, 111, 111 >>,                        \* 4:foo
      << 105, 49, 101, 120 >>,                            \* i1ex
      << 108, 105, 49, 101, 120, 101 >>,                  \* li1exe
      << 105, 57, 50, 50, 51, 51, 55, 50, 48, 51, 54, 56, 53, 52,
         55, 55, 53, 56, 48, 56, 101 >>,                  \* i9223372036854775808e
      << 100, 49, 58, 255, 105, 49, 101, 101 >> }         \* a key that is not UTF-8

\* ---------------------------------------------------------------- actions

Init ==
    /\ val = NoValue
    /\ op = "new"
    /\ arg = << >>
    /\ ret = << >>

Construct(name, a, v) ==
    /\ val' = v
    /\ op' = name
    /\ arg' = a
    /\ ret' = << >>

Call(name, a, r) ==
    /\ val # NoValue
    /\ op' = name
    /\ arg' = a
    /\ ret' = r
    /\ UNCHANGED val

From_num == \E ty \in NumTypes : \E x \in NativeSamples(ty) :
    Construct("from_num", << ty, x >>, from_num(ty, x))

From_i64 == \E x \in IntSamples : Construct("from_i64", x, from_i64(x))

From_bytes == \E b \in TextSamples : Construct("from_bytes", b, from_bytes(b))

From_str == \E b \in StrSamples : Construct("from_str", b, from_str(b))

From_list == \E l \in SeqsUpTo(SmallVals) : Construct("from_list", l, from_list(l))

From_hash_map == \E hm \in HashMaps :
    Construct("from_hash_map", hm, from_hash_map(hm))

From_btree_map == \E hm \in HashMaps :
    Construct("from_btree_map", BTreeFromIter(hm), from_btree_map(BTreeFromIter(hm)))

As_i64 == Call("as_i64", << >>, as_i64(val))

As_bytes == Call("as_bytes", << >>, as_bytes(val))

As_str == Call("as_str", << >>, as_str(val))

As_list == Call("as_list", << >>, as_list(val))

As_dict == Call("as_dict", << >>, as_dict(val))

As_bytes_mut == Call("as_bytes_mut", << >>, as_bytes_mut(val))

As_str_mut == Call("as_str_mut", << >>, as_str_mut(val))

As_list_mut == Call("as_list_mut", << >>, as_list_mut(val))

As_dict_mut == Call("as_dict_mut", << >>, as_dict_mut(val))

\* The caller writes through the reference an accessor returned, while it
\* holds it.
Borrowed(accessor, writers) ==
    \/ op = accessor /\ ret \in { Some(Payload(val)), << "Ok", Some(Payload(val)) >> }
    \/ op \in writers

\* bytes[i] = c through as_bytes_mut's slice.
Bytes_set ==
    /\ Borrowed("as_bytes_mut", { "bytes_set" })
    /\ \E i \in 1..Len(Payload(val)) : \E c \in { 98, 255 } :
           Construct("bytes_set", << i, c >>,
                     Value_Text([ Payload(val) EXCEPT ![i] = c ]))

\* s.make_ascii_uppercase() through as_str_mut's str.
Str_upper ==
    /\ Borrowed("as_str_mut", { "str_upper" })
    /\ Construct("str_upper", << >>,
                 Value_Text([ i \in 1..Len(Payload(val)) |->
                     IF Payload(val)[i] >= 97 /\ Payload(val)[i] <= 122
                     THEN Payload(val)[i] - 32 ELSE Payload(val)[i] ]))

\* list.push(v), list.pop(), list[i] = v through as_list_mut's Vec.
List_push ==
    /\ Borrowed("as_list_mut", { "list_push", "list_pop", "list_set" })
    /\ Len(Payload(val)) < MaxLen
    /\ \E v \in SmallVals :
           Construct("list_push", v, Value_List(Append(Payload(val), v)))

List_pop ==
    /\ Borrowed("as_list_mut", { "list_push", "list_pop", "list_set" })
    /\ Len(Payload(val)) > 0
    /\ Construct("list_pop", << >>,
                 Value_List(SubSeq(Payload(val), 1, Len(Payload(val)) - 1)))

List_set ==
    /\ Borrowed("as_list_mut", { "list_push", "list_pop", "list_set" })
    /\ \E i \in 1..Len(Payload(val)) : \E v \in SmallVals :
           Construct("list_set", << i, v >>,
                     Value_List([ Payload(val) EXCEPT ![i] = v ]))

\* dict.insert(k, v), dict.remove(k) through as_dict_mut's BTreeMap.
Dict_insert ==
    /\ Borrowed("as_dict_mut", { "dict_insert", "dict_remove", "dict_insert_in" })
    /\ \E k \in Keys : \E v \in SmallVals :
           /\ Len(Payload(val)) < MaxLen \/ BTreeGet(Payload(val), k) # None
           /\ Construct("dict_insert", << k, v >>,
                        Value_Dict(BTreeInsert(Payload(val), k, v)))

Dict_remove ==
    /\ Borrowed("as_dict_mut", { "dict_insert", "dict_remove", "dict_insert_in" })
    /\ \E k \in Keys :
           /\ BTreeGet(Payload(val), k) # None
           /\ Construct("dict_remove", k, Value_Dict(BTreeRemove(Payload(val), k)))

\* dict.get_mut(k).and_then(Value::as_dict_mut) and an insert into the
\* inner dict.
Dict_insert_in ==
    /\ Borrowed("as_dict_mut", { "dict_insert", "dict_remove", "dict_insert_in" })
    /\ \E k \in Keys : \E k2 \in InnerKeys :
           LET inner == BTreeGet(Payload(val), k)
           IN  /\ inner # None
               /\ as_dict_mut(inner[2]) # None
               /\ Len(Payload(inner[2])) < MaxLen
               /\ Construct("dict_insert_in", << k, k2 >>,
                      Value_Dict(BTreeInsert(Payload(val), k,
                          Value_Dict(BTreeInsert(Payload(inner[2]), k2,
                                                 Value_Int(I64(1995)))))))

\* value.serialize(serializer): the events handed over.
Serialize == Call("serialize", << >>, serialize(val))

\* encode(&value).
Encode == Call("encode", << >>, encode(val))

\* A caller that holds no value encodes a hash map, deserializes the events
\* of another deserializer or decodes bytes it was given; val stays as it is.
Static(name, a, r) ==
    /\ val = NoValue
    /\ op' = name
    /\ arg' = a
    /\ ret' = r
    /\ UNCHANGED val

\* encode(&hash_map).
Encode_hash_map == \E hm \in HashMaps :
    Static("encode_hash_map", hm, encode_hash_map(hm))

\* Value::deserialize(deserializer), handed the events just serialized.
Deserialize ==
    /\ op = "serialize"
    /\ Call("deserialize", ret, deserialize(ret))

\* Value::deserialize(deserializer) of another deserializer's events.
Deserialize_events == \E ev \in EventSamples :
    Static("deserialize", ev, deserialize(ev))

\* decode::<Value>(bytes) of the bytes just encoded.
Decode ==
    /\ op = "encode"
    /\ Call("decode", ret, decode(ret))

\* decode::<Value>(bytes) of bytes from elsewhere.
Decode_bytes == \E b \in DecodeSamples :
    Static("decode", b, decode(b))

\* The caller keeps the value a deserialize or decode call returned.
Take ==
    /\ op \in { "deserialize", "decode" }
    /\ ret[1] = "Ok"
    /\ Construct("take", << >>, ret[2])

\* The caller drops its value.
Drop ==
    /\ val # NoValue
    /\ Construct("drop", << >>, NoValue)

Next ==
    \/ From_num \/ From_i64 \/ From_bytes \/ From_str \/ From_list
    \/ From_hash_map \/ From_btree_map
    \/ As_i64 \/ As_bytes \/ As_str \/ As_list \/ As_dict
    \/ As_bytes_mut \/ As_str_mut \/ As_list_mut \/ As_dict_mut
    \/ Bytes_set \/ Str_upper \/ List_push \/ List_pop \/ List_set
    \/ Dict_insert \/ Dict_remove \/ Dict_insert_in
    \/ Serialize \/ Encode \/ Encode_hash_map
    \/ Deserialize \/ Deserialize_events \/ Decode \/ Decode_bytes \/ Take \/ Drop

Spec == Init /\ [][Next]_vars

\* -------------------------------------------------------------- properties

\* The orders in which a hash map may yield the entries hm.
Orders(hm) == { [ i \in 1..Len(hm) |-> hm[p[i]] ] : p \in Permutations(1..Len(hm)) }

\* Every map of an event tree has its keys in strictly ascending byte order.
RECURSIVE AscendingMaps(_)
AscendingMaps(ev) ==
    CASE ev[1] = "seq" -> \A i \in 1..Len(ev[2]) : AscendingMaps(ev[2][i])
      [] ev[1] = "map" ->
            /\ \A i \in 1..(Len(ev[2]) - 1) : StrLess(ev[2][i][1][2], ev[2][i + 1][1][2])
            /\ \A i \in 1..Len(ev[2]) : AscendingMaps(ev[2][i][2])
      [] OTHER -> TRUE

\* Every Dict of a value, at any depth, has unique keys that are UTF-8 and
\* iterates them in strictly ascending byte order.
RECURSIVE SortedDicts(_)
SortedDicts(v) ==
    CASE Tag(v) = "List" -> \A i \in 1..Len(Payload(v)) : SortedDicts(Payload(v)[i])
      [] Tag(v) = "Dict" ->
            /\ \A i \in 1..(Len(Payload(v)) - 1) :
                   StrLess(Payload(v)[i][1], Payload(v)[i + 1][1])
            /\ \A i \in 1..Len(Payload(v)) :
                   /\ from_utf8(Payload(v)[i][1])[1] = "Ok"
                   /\ SortedDicts(Payload(v)[i][2])
      [] OTHER -> TRUE

\* Whether bytes are the canonical form of the integer w: an optional '-',
\* digits without a leading zero whose value is the magnitude of w.
IsDecimalOf(ds, w) ==
    LET neg == TopBit(w)
        body == IF neg THEN Tail(ds) ELSE ds
    IN  /\ neg => (Len(ds) > 0 /\ ds[1] = 45)
        /\ Len(body) > 0
        /\ \A i \in 1..Len(body) : IsDigit(body[i])
        /\ body[1] = 48 => Len(body) = 1
        /\ Horner(body) = << IF neg THEN Neg64(w) ELSE w, FALSE >>

\* The events a deserializer is asked for, in order, when every request is
\* made: <<"req">> for a next_element or next_entry call, <<"err", e>> where
\* the request fails, <<"leaf">> for a scalar.
RECURSIVE Tokens(_)
Tokens(ev) ==
    CASE ev[1] = "seq" ->
            Concat([ i \in 1..Len(ev[2]) |-> << << "req" >> >> \o Tokens(ev[2][i]) ])
                \o << << "req" >> >>
      [] ev[1] = "map" ->
            Concat([ i \in 1..Len(ev[2]) |->
                       << << "req" >> >>
                           \o (IF next_key(ev[2][i][1])[1] = "Err"
                               THEN << << "err", next_key(ev[2][i][1])[2] >> >>
                               ELSE << << "leaf" >> >> \o Tokens(ev[2][i][2])) ])
                \o << << "req" >> >>
      [] ev[1] = "some" -> Tokens(ev[2])
      [] ev[1] = "err" -> << << "err", ev[2] >> >>
      [] ev[1] \in { "i64", "u64", "str", "bytes" } -> << << "leaf" >> >>
      [] OTHER -> << << "err", "invalid type" >> >>

Failing(ts) == { i \in 1..Len(ts) : ts[i][1] = "err" }

FirstFailure(ts) == CHOOSE i \in Failing(ts) : \A j \in Failing(ts) : i <= j

Requests(ts, n) == Cardinality({ i \in 1..n : ts[i][1] = "req" })

\* Whether a map's entries name a key twice.
RepeatsKey(entries) ==
    \E i, j \in 1..Len(entries) :
        /\ i < j
        /\ next_key(entries[i][1])[1] = "Ok"
        /\ next_key(entries[i][1]) = next_key(entries[j][1])

\* C1: round trip. Decoding the bytes a value was encoded to returns that
\* value, and the visitor fed the events Value::serialize emitted rebuilds
\* the same variant, payload, element order and key set.
C1_RoundTrip ==
    /\ (op = "deserialize" /\ val # NoValue /\ arg = serialize(val)) =>
           (ret[1] = "Ok" /\ ret[2] = val)
    /\ (op = "decode" /\ val # NoValue /\ arg = encode(val)) => ret = << "Ok", val >>

C1_Witness ==
    /\ op = "decode"
    /\ val # NoValue
    /\ arg = encode(val)
    /\ Tag(val) = "Dict"
    /\ Len(Payload(val)) = 2
    /\ \E i \in 1..2 : Tag(Payload(val)[i][2]) = "Dict" /\ Len(Payload(Payload(val)[i][2])) = 2
    /\ ret = << "Ok", val >>

\* C2: canonical dict order. Whatever the order in which entries went into
\* a Dict or come out of a hash map, Value::serialize emits a Dict's entries
\* in strictly ascending byte order of the keys and the bytes written hold
\* them so, the same bytes for every order of the same entries.
C2_CanonicalDictOrder ==
    /\ val # NoValue => AscendingMaps(serialize(val))
    /\ op = "encode" => AscendingMaps(ParseValue(ret, 1)[1])
    /\ op = "from_hash_map" =>
           \A hm \in Orders(arg) :
               /\ encode(from_hash_map(hm)) = encode(val)
               /\ encode_hash_map(hm) = encode(val)
    /\ op = "encode_hash_map" =>
           /\ AscendingMaps(ParseValue(ret, 1)[1])
           /\ \A hm \in Orders(arg) : encode_hash_map(hm) = ret

C2_Witness ==
    /\ op = "from_hash_map"
    /\ Len(arg) = 2
    /\ StrLess(arg[2][1], arg[1][1])
    /\ encode(val) = << 100, 51, 58, 98, 97, 114, 51, 58, 102, 97, 122,
                        51, 58, 102, 111, 111, 105, 49, 57, 57, 53, 101, 101 >>

\* C3: canonical encoding shape. An Int is written 'i', its decimal digits
\* ('-' first when negative, no leading zero), 'e'; a Text its length in
\* decimal, ':', its bytes; a List 'l', its elements' encodings in order,
\* 'e'. Value::serialize emits one event per node: serialize_i64,
\* serialize_bytes, or a seq with one event per element in index order.
C3_EncodingShape ==
    /\ (op = "serialize" /\ Tag(val) = "Int") => ret = << "i64", Payload(val) >>
    /\ (op = "serialize" /\ Tag(val) = "Text") => ret = << "bytes", Payload(val) >>
    /\ (op = "serialize" /\ Tag(val) = "List") =>
           /\ ret[1] = "seq"
           /\ Len(ret[2]) = Len(Payload(val))
           /\ \A i \in 1..Len(ret[2]) : ret[2][i] = serialize(Payload(val)[i])
    /\ (op = "encode" /\ Tag(val) = "Int") =>
           /\ Len(ret) >= 3
           /\ ret[1] = 105
           /\ ret[Len(ret)] = 101
           /\ IsDecimalOf(SubSeq(ret, 2, Len(ret) - 1), Payload(val))
    /\ (op = "encode" /\ Tag(val) = "Text") =>
           LET e == DigitRunEnd(ret, 1)
           IN  /\ e > 1
               /\ e <= Len(ret)
               /\ ret[e] = 58
               /\ ret[1] = 48 => e = 2
               /\ LengthOf(SubSeq(ret, 1, e - 1), Len(ret)) = Len(Payload(val))
               /\ SubSeq(ret, e + 1, Len(ret)) = Payload(val)
    /\ (op = "encode" /\ Tag(val) = "List") =>
           ret = << 108 >>
                     \o Concat([ i \in 1..Len(Payload(val)) |-> encode(Payload(val)[i]) ])
                     \o << 101 >>
    /\ (op = "encode" /\ val = Value_Int(I64(1995))) => ret = << 105, 49, 57, 57, 53, 101 >>
    /\ (op = "encode" /\ val = Value_Int(I64(0))) => ret = << 105, 48, 101 >>
    /\ (op = "encode" /\ val = Value_Int(I64(0 - 5))) => ret = << 105, 45, 53, 101 >>
    /\ (op = "encode" /\ val = Value_Text(<< 102, 111, 111 >>)) =>
           ret = << 51, 58, 102, 111, 111 >>
    /\ (op = "encode"
          /\ val = Value_List(<< Value_Int(I64(1995)), Value_Text(<< 102, 111, 111 >>) >>)) =>
           ret = << 108, 105, 49, 57, 57, 53, 101, 51, 58, 102, 111, 111, 101 >>

C3_Witness ==
    /\ op = "encode"
    /\ val = Value_List(<< Value_Int(I64(1995)), Value_Text(<< 102, 111, 111 >>) >>)
    /\ ret = << 108, 105, 49, 57, 57, 53, 101, 51, 58, 102, 111, 111, 101 >>

\* C4: duplicate keys rejected. Decoding a dict that names a key twice
\* fails, and Value's map visitor returns no Dict when the entries it is
\* given repeat a key.
C4_DuplicateKeysRejected ==
    /\ (op = "deserialize" /\ arg[1] = "map" /\ RepeatsKey(arg[2])) => ret[1] = "Err"
    /\ (op = "decode"
          /\ arg = << 100, 49, 58, 97, 105, 49, 101, 49, 58, 97, 105, 50, 101, 101 >>) =>
           ret = << "Err", "DuplicateKey" >>

\* C5: integer overflow on decode is an error. An integer outside
\* [-2^63, 2^63-1] never becomes a Value::Int: one that reaches the visitor
\* as a u64 above 2^63-1 yields an error, not an Int of another number.
C5_OverflowIsError ==
    /\ (op = "deserialize" /\ arg[1] = "u64" /\ TopBit(arg[2])) => ret[1] = "Err"
    /\ (op = "deserialize" /\ arg[1] \in { "u64", "i64" } /\ ret[1] = "Ok") =>
           MathOfI64(Payload(ret[2]))
               = (IF arg[1] = "u64" THEN << "+", arg[2] >> ELSE MathOfI64(arg[2]))
    /\ (op = "decode" /\ arg = << 105, 57, 50, 50, 51, 51, 55, 50, 48, 51, 54, 56, 53, 52,
                                  55, 55, 53, 56, 48, 56, 101 >>) => ret[1] = "Err"

\* C6: lossless integer construction. Value::from(x) of a native integer x
\* is an Int whose number, as as_i64 returns it, is x.
C6_LosslessFromNum ==
    /\ op = "from_num" =>
           /\ as_i64(val) # None
           /\ MathOfI64(as_i64(val)[2]) = MathOfNative(arg[1], arg[2])
    /\ op = "from_i64" => as_i64(val) = Some(arg)

\* C7: sorted-dict invariant. After every construction, insertion, removal
\* and deserialization, every Dict at any depth has unique keys in ascending
\* byte order, and the Dict made of a hash map holds exactly its entries.
C7_SortedDict ==
    /\ val # NoValue => SortedDicts(val)
    /\ (op \in { "deserialize", "decode" } /\ ret[1] = "Ok") => SortedDicts(ret[2])
    /\ op = "from_hash_map" =>
           /\ Tag(val) = "Dict"
           /\ Len(Payload(val)) = Len(arg)
           /\ { Payload(val)[i] : i \in 1..Len(Payload(val)) } = { arg[i] : i \in 1..Len(arg) }
    /\ op = "dict_insert" => BTreeGet(Payload(val), arg[1]) = Some(arg[2])
    /\ op = "dict_remove" => BTreeGet(Payload(val), arg) = None

C7_Witness ==
    /\ op = "dict_insert_in"
    /\ Len(Payload(val)) = 2
    /\ \E i \in 1..2 :
           /\ Tag(Payload(val)[i][2]) = "Dict"
           /\ Len(Payload(Payload(val)[i][2])) = 2
    /\ arg[2] = << 98, 97, 114 >>
    /\ SortedDicts(val)

\* C8: safe narrowing accessors. An accessor returns the payload when the
\* value is of its variant and None otherwise; as_str and as_str_mut return
\* Ok(None) for another variant, the string for UTF-8 text and an error for
\* text that is not UTF-8; a read-only accessor leaves the value as it was.
C8_Results ==
    /\ op = "as_i64" => ret = (IF Tag(val) = "Int" THEN Some(Payload(val)) ELSE None)
    /\ op \in { "as_bytes", "as_bytes_mut" } =>
           ret = (IF Tag(val) = "Text" THEN Some(Payload(val)) ELSE None)
    /\ op \in { "as_list", "as_list_mut" } =>
           ret = (IF Tag(val) = "List" THEN Some(Payload(val)) ELSE None)
    /\ op \in { "as_dict", "as_dict_mut" } =>
           ret = (IF Tag(val) = "Dict" THEN Some(Payload(val)) ELSE None)
    /\ op \in { "as_str", "as_str_mut" } =>
           /\ ret = << "Ok", None >> <=> Tag(val) # "Text"
           /\ ret = << "Ok", Some(Payload(val)) >>
                  <=> (Tag(val) = "Text" /\ Utf8From(Payload(val), 1))
           /\ ret[1] = "Err" <=> (Tag(val) = "Text" /\ ~Utf8From(Payload(val), 1))

\* C8: the accessors' results are as above in every state, and no step of a
\* read-only accessor changes the value.
C8_Accessors ==
    /\ []C8_Results
    /\ [][op' \in { "as_i64", "as_bytes", "as_str", "as_list", "as_dict" } => val' = val]_vars

C8_Witness ==
    /\ op = "as_str"
    /\ val = Value_Text(<< 195 >>)
    /\ ret = << "Err", "Utf8Error" >>

\* C9: all-or-nothing decode. When an element or entry fails, at any
\* position and depth, the result is that first error and no Value, and
\* nothing is requested after it; without a failure the result is a Value.
C9_AllOrNothing ==
    /\ op = "deserialize" =>
           LET ts == Tokens(arg)
           IN  IF Failing(ts) = { }
               THEN ret[1] = "Ok" /\ ret[3] = Requests(ts, Len(ts))
               ELSE ret = Err(ts[FirstFailure(ts)][2], Requests(ts, FirstFailure(ts)))
    /\ (op = "decode" /\ Failing(Tokens(ParseValue(arg, 1)[1])) # { }) => ret[1] = "Err"

C9_Witness ==
    /\ op = "deserialize"
    /\ arg = << "seq", << << "seq", << << "i64", I64(1) >>, << "err", "E1" >> >> >>,
                          << "err", "E2" >> >> >>
    /\ ret = Err("E1", 3)

\* C10: idempotent re-encode. Encoding the value decoded from a value's
\* encoding gives the same bytes again, for every value a caller can hold.
C10_IdempotentReencode ==
    (op = "decode" /\ val # NoValue /\ arg = encode(val)) =>
        (ret[1] = "Ok" /\ encode(ret[2]) = encode(val))

C10_Witness ==
    /\ op = "decode"
    /\ val # NoValue
    /\ Tag(val) = "List"
    /\ Len(Payload(val)) = 2
    /\ Payload(val)[1] # Payload(val)[2]
    /\ arg = encode(val)
    /\ ret[1] = "Ok"
    /\ encode(ret[2]) = encode(val)

====
